---- MODULE Spec2Model ----
(***************************************************************************)
(* A model of bump.cpp: the geometry kernel (Rect), the response functions *)
(* (Responses) and the World class (response registry, grid cells,         *)
(* project).                                                               *)
(*                                                                         *)
(* Numbers.  Bump::Number is a double.  Coordinates are drawn from a       *)
(* bounded integer lattice; quotients (ti, touch points) are kept as exact *)
(* fractions <<n, d>> in lowest terms with d > 0.  On this lattice every   *)
(* quotient q / p has |q|, |p| far below 10^10, so two quotients are equal *)
(* as doubles exactly when they are equal as fractions, and a comparison   *)
(* against deltaError = 1e-10 is decided by the sign (see the *Delta       *)
(* operators).  std::numeric_limits<Number>::max() and its negation are    *)
(* the two improper fractions <<1, 0>> and <<-1, 0>>.                      *)
(***************************************************************************)
EXTENDS Integers, Sequences, FiniteSets, TLC

VARIABLES
    pc,             \* position of the caller: "ready" before a call, "done" after
    call,           \* the operation called last and its arguments
    ret,            \* what that call returned (or that it threw)
    responses,      \* World::responses : name -> handler
    rows,           \* World::rows : vector<vector<Cell>>, with buffer addresses
    nonEmptyCells,  \* World::nonEmptyCells : the Cell* keys of the map
    history         \* the calls made on the World so far, in order

vars == <<pc, call, ret, responses, rows, nonEmptyCells, history>>

-----------------------------------------------------------------------------
(* Bounds of the model *)

MaxCoord == 1       \* coordinates of the other rectangle and of the goal
MaxSize == 2        \* widths and heights

Coord == (0 - MaxCoord) .. MaxCoord
SegCoord == (0 - (MaxCoord + 1)) .. (MaxCoord + 1)
Size == 0 .. MaxSize
MoverOrigin == {<<0, 0>>, <<-1, 1>>}

-----------------------------------------------------------------------------
(* Number arithmetic *)

Abs(i) == IF i < 0 THEN 0 - i ELSE i

RECURSIVE Gcd(_, _)
Gcd(a, b) == IF b = 0 THEN a ELSE Gcd(b, a % b)

\* the quotient n / d (d # 0) in lowest terms
Frac(n, d) ==
    LET g == Gcd(Abs(n), Abs(d))
        s == IF d < 0 THEN 0 - 1 ELSE 1
    IN  <<(s * n) \div g, (s * d) \div g>>

Q(i) == <<i, 1>>

NumMax == <<1, 0>>
NumLowest == <<0 - 1, 0>>

IsFinite(a) == a[2] # 0

\* a < b
QLt(a, b) ==
    IF a = b THEN FALSE
    ELSE IF ~IsFinite(a) THEN a[1] < 0
    ELSE IF ~IsFinite(b) THEN b[1] > 0
    ELSE a[1] * b[2] < b[1] * a[2]

QLe(a, b) == a = b \/ QLt(a, b)

QAdd(a, b) == Frac(a[1] * b[2] + b[1] * a[2], a[2] * b[2])
QSub(a, b) == Frac(a[1] * b[2] - b[1] * a[2], a[2] * b[2])
QMul(a, b) == Frac(a[1] * b[1], a[2] * b[2])
QNeg(a) == <<0 - a[1], a[2]>>

\* v > deltaError, for a lattice value v (an integer)
GtDelta(v) == v > 0

\* std::abs(a - b) >= deltaError, for quotients of lattice values
AbsDiffGeDelta(a, b) == a # b

\* a + deltaError > 0, for a quotient of lattice values
PlusDeltaPositive(a) ==
    IF IsFinite(a) THEN a[1] >= 0 ELSE a[1] > 0

Pt(px, py) == [x |-> px, y |-> py]
Rc(rx, ry, rw, rh) == [x |-> rx, y |-> ry, w |-> rw, h |-> rh]

-----------------------------------------------------------------------------
(* Aux *)

sign(value) == IF value > 0 THEN 1 ELSE IF value < 0 THEN 0 - 1 ELSE 0

\* nearest with <= for <: a tie goes to the first candidate
nearestFirst(value, first, second) ==
    IF Abs(first - value) <= Abs(second - value) THEN first ELSE second

nearest(value, first, second) ==
    IF Abs(first - value) < Abs(second - value) THEN first ELSE second

-----------------------------------------------------------------------------
(* Rect *)

getNearestCorner(x, y, w, h, px, py) ==
    Pt(nearest(px, x, x + w), nearest(py, y, y + h))

\* SideOf with the normals of the left and the right side exchanged
SideOfSwapped(side, x, y, w, h, x1, y1, dx, dy) ==
    CASE side = 1 -> [nx |-> 1, ny |-> 0, p |-> 0 - dx, q |-> x1 - x]
      [] side = 2 -> [nx |-> 0 - 1, ny |-> 0, p |-> dx, q |-> x + w - x1]
      [] side = 3 -> [nx |-> 0, ny |-> 0 - 1, p |-> 0 - dy, q |-> y1 - y]
      [] side = 4 -> [nx |-> 0, ny |-> 1, p |-> dy, q |-> y + h - y1]

\* the switch over the four sides: <<nx, ny, p, q>>
SideOf(side, x, y, w, h, x1, y1, dx, dy) ==
    CASE side = 1 -> [nx |-> 0 - 1, ny |-> 0, p |-> 0 - dx, q |-> x1 - x]
      [] side = 2 -> [nx |-> 1, ny |-> 0, p |-> dx, q |-> x + w - x1]
      [] side = 3 -> [nx |-> 0, ny |-> 0 - 1, p |-> 0 - dy, q |-> y1 - y]
      [] side = 4 -> [nx |-> 0, ny |-> 1, p |-> dy, q |-> y + h - y1]

\* what a call that threw ComputationError leaves behind
SegThrown ==
    [threw |-> TRUE, ti1 |-> Q(0), ti2 |-> Q(0),
     nx1 |-> 0, ny1 |-> 0, nx2 |-> 0, ny2 |-> 0]

\* SideStep with q < 0 for q <= 0 in the test of a parallel segment
SideStepStrict(s, sd) ==
    IF s.threw THEN s
    ELSE IF sd.p = 0
    THEN IF sd.q < 0 THEN SegThrown ELSE s
    ELSE LET r == Frac(sd.q, sd.p) IN
         IF sd.p < 0
         THEN IF QLt(s.ti2, r) THEN SegThrown
              ELSE IF QLt(s.ti1, r)
                   THEN [s EXCEPT !.ti1 = r, !.nx1 = sd.nx, !.ny1 = sd.ny]
                   ELSE s
         ELSE IF QLt(r, s.ti1) THEN SegThrown
              ELSE IF QLt(r, s.ti2)
                   THEN [s EXCEPT !.ti2 = r, !.nx2 = sd.nx, !.ny2 = sd.ny]
                   ELSE s

\* one iteration of the loop over the sides
SideStep(s, sd) ==
    IF s.threw THEN s
    ELSE IF sd.p = 0
    THEN IF sd.q <= 0 THEN SegThrown ELSE s
    ELSE LET r == Frac(sd.q, sd.p) IN
         IF sd.p < 0
         THEN IF QLt(s.ti2, r) THEN SegThrown
              ELSE IF QLt(s.ti1, r)
                   THEN [s EXCEPT !.ti1 = r, !.nx1 = sd.nx, !.ny1 = sd.ny]
                   ELSE s
         ELSE IF QLt(r, s.ti1) THEN SegThrown
              ELSE IF QLt(r, s.ti2)
                   THEN [s EXCEPT !.ti2 = r, !.nx2 = sd.nx, !.ny2 = sd.ny]
                   ELSE s

getSegmentIntersectionIndices(x, y, w, h, x1, y1, x2, y2, ti1, ti2) ==
    LET dx == x2 - x1
        dy == y2 - y1
        s0 == [threw |-> FALSE, ti1 |-> ti1, ti2 |-> ti2,
               nx1 |-> 0, ny1 |-> 0, nx2 |-> 0, ny2 |-> 0]
        s1 == SideStep(s0, SideOf(1, x, y, w, h, x1, y1, dx, dy))
        s2 == SideStep(s1, SideOf(2, x, y, w, h, x1, y1, dx, dy))
        s3 == SideStep(s2, SideOf(3, x, y, w, h, x1, y1, dx, dy))
        s4 == SideStep(s3, SideOf(4, x, y, w, h, x1, y1, dx, dy))
    IN  s4

getDiff(x1, y1, w1, h1, x2, y2, w2, h2) ==
    Rc(x2 - x1 - w1, y2 - y1 - h1, w1 + w2, h1 + h2)

containsPoint(x, y, w, h, px, py) ==
    /\ GtDelta(px - x)
    /\ GtDelta(py - y)
    /\ GtDelta(x + w - px)
    /\ GtDelta(y + h - py)

isIntersecting(x1, y1, w1, h1, x2, y2, w2, h2) ==
    /\ x1 < x2 + w2
    /\ x2 < x1 + w1
    /\ y1 < y2 + h2
    /\ y2 < y1 + h1

\* std::min
Min(a, b) == IF b < a THEN b ELSE a

\* (dx, dy) is kept doubled, so that the halves stay integers: the result is
\* the squared distance as the fraction (2dx)^2 + (2dy)^2 over 4
getSquareDistance(x1, y1, w1, h1, x2, y2, w2, h2) ==
    LET dx2 == 2 * (x1 - x2) + (w1 - w2)
        dy2 == 2 * (y1 - y2) + (h1 - h2)
    IN  Frac(dx2 * dx2 + dy2 * dy2, 4)

\* the Collision record a call returns; threw is set when ComputationError
\* leaves the call instead
MkCollision(dx, dy, nx, ny, tx, ty, x1, y1, w1, h1, x2, y2, w2, h2, overlaps, ti) ==
    [threw |-> FALSE,
     move |-> Pt(dx, dy), normal |-> Pt(nx, ny), touch |-> Pt(tx, ty),
     itemRect |-> Rc(x1, y1, w1, h1), otherRect |-> Rc(x2, y2, w2, h2),
     overlaps |-> overlaps, ti |-> ti,
     item |-> "nullptr", other |-> "nullptr",
     slide |-> Pt(Q(0), Q(0)), bounce |-> Pt(Q(0), Q(0))]

CollisionThrown == [threw |-> TRUE]

\* PushOut with the comparison of the two distances turned round
PushOutLonger(d, x1, y1) ==
    LET c == getNearestCorner(d.x, d.y, d.w, d.h, 0, 0)
        px == IF Abs(c.x) > Abs(c.y) THEN c.x ELSE 0
        py == IF Abs(c.x) > Abs(c.y) THEN 0 ELSE c.y
    IN  [nx |-> sign(px), ny |-> sign(py),
         tx |-> Q(x1 + px), ty |-> Q(y1 + py)]

\* the touch point of an overlap with zero motion (bump.cpp 252-264)
PushOut(d, x1, y1) ==
    LET c == getNearestCorner(d.x, d.y, d.w, d.h, 0, 0)
        px == IF Abs(c.x) < Abs(c.y) THEN c.x ELSE 0
        py == IF Abs(c.x) < Abs(c.y) THEN 0 ELSE c.y
    IN  [nx |-> sign(px), ny |-> sign(py),
         tx |-> Q(x1 + px), ty |-> Q(y1 + py)]

detectCollision(x1, y1, w1, h1, x2, y2, w2, h2, goalX, goalY) ==
    LET dx == goalX - x1
        dy == goalY - y1
        d == getDiff(x1, y1, w1, h1, x2, y2, w2, h2)
        inside == containsPoint(d.x, d.y, d.w, d.h, 0, 0)
        \* the branch of an item that was intersecting other
        c == getNearestCorner(d.x, d.y, d.w, d.h, 0, 0)
        wi == Min(w1, Abs(c.x))
        hi == Min(h1, Abs(c.y))
        \* the other branch
        seg == getSegmentIntersectionIndices(
                   d.x, d.y, d.w, d.h, 0, 0, dx, dy, NumLowest, NumMax)
        ti0 == Q(0)
        found == /\ QLt(ti0, Q(1))
                 /\ AbsDiffGeDelta(seg.ti1, seg.ti2)
                 /\ \/ PlusDeltaPositive(seg.ti1)
                    \/ (seg.ti1 = Q(0) /\ QLt(Q(0), seg.ti2))
        \* the overlap with motion
        seg1 == getSegmentIntersectionIndices(
                    d.x, d.y, d.w, d.h, 0, 0, dx, dy, NumLowest, Q(1))
        po == PushOut(d, x1, y1)
    IN  IF inside
        THEN LET ti == Q(0 - (wi * hi)) IN
             IF dx = 0 /\ dy = 0
             THEN MkCollision(dx, dy, po.nx, po.ny, po.tx, po.ty,
                              x1, y1, w1, h1, x2, y2, w2, h2, TRUE, ti)
             ELSE IF seg1.threw THEN CollisionThrown
             ELSE MkCollision(dx, dy, seg1.nx1, seg1.ny1,
                              QAdd(Q(x1), QMul(Q(dx), seg1.ti1)),
                              QAdd(Q(y1), QMul(Q(dy), seg1.ti1)),
                              x1, y1, w1, h1, x2, y2, w2, h2, TRUE, ti)
        ELSE IF seg.threw THEN CollisionThrown
        ELSE LET ti == IF found THEN seg.ti1 ELSE ti0
                 nx == IF found THEN seg.nx1 ELSE 0
                 ny == IF found THEN seg.ny1 ELSE 0
             IN  MkCollision(dx, dy, nx, ny,
                             QAdd(Q(x1), QMul(Q(dx), ti)),
                             QAdd(Q(y1), QMul(Q(dy), ti)),
                             x1, y1, w1, h1, x2, y2, w2, h2, FALSE, ti)


-----------------------------------------------------------------------------
(* World: construction *)

ResponseName == {"touch", "cross", "slide", "bounce", "custom", "other"}
Handler == {"Responses::touch", "Responses::cross", "Responses::slide",
            "Responses::bounce", "user"}

\* addResponse as std::map::insert: a name already present keeps its handler
addResponseInsert(map, name, handler) ==
    [n \in (DOMAIN map) \cup {name} |->
        IF n \in DOMAIN map THEN map[n] ELSE handler]

\* responses[name] = handler
addResponse(map, name, handler) ==
    [n \in (DOMAIN map) \cup {name} |-> IF n = name THEN handler ELSE map[n]]

EmptyMap == [n \in {} |-> "user"]

\* World::World
Constructed ==
    addResponse(
        addResponse(
            addResponse(
                addResponse(EmptyMap, "touch", "Responses::touch"),
                "cross", "Responses::cross"),
            "slide", "Responses::slide"),
        "bounce", "Responses::bounce")

NoRet == [op |-> "none"]

WorldInit ==
    /\ responses = Constructed
    /\ rows = <<>>
    /\ nonEmptyCells = {}
    /\ history = <<>>

WorldUnchanged == UNCHANGED <<responses, rows, nonEmptyCells, history>>

-----------------------------------------------------------------------------
(* World: the response registry *)

MaxCalls == 2       \* addResponse calls after the construction

\* World::getResponseByName; threw stands for NotFoundError
getResponseByName(map, name) ==
    IF name \notin DOMAIN map
    THEN [threw |-> TRUE, handler |-> "none"]
    ELSE [threw |-> FALSE, handler |-> map[name]]

InitRegistry ==
    /\ pc = "ready"
    /\ call = [op |-> "World"]
    /\ ret = NoRet
    /\ WorldInit

AddResponseCall ==
    \E name \in ResponseName, handler \in Handler :
        /\ Len(history) < MaxCalls
        /\ responses' = addResponse(responses, name, handler)
        /\ history' = Append(history,
               [op |-> "addResponse", name |-> name, handler |-> handler])
        /\ call' = [op |-> "addResponse", name |-> name, handler |-> handler]
        /\ ret' = NoRet
        /\ pc' = "done"
        /\ UNCHANGED <<rows, nonEmptyCells>>

GetResponseByNameCall ==
    \E name \in ResponseName :
        /\ ret' = getResponseByName(responses, name)
        /\ call' = [op |-> "getResponseByName", name |-> name]
        /\ pc' = "done"
        /\ WorldUnchanged

NextRegistry == AddResponseCall \/ GetResponseByNameCall

SpecRegistry == InitRegistry /\ [][NextRegistry]_vars

-----------------------------------------------------------------------------
(* World: the grid cells and project *)

MaxCell == 1        \* cell indices passed to addItemToCell
MaxAdds == 2        \* addItemToCell calls
MaxAddr == 4        \* addresses the allocator hands out for cell buffers

Item == {"a", "b", "c"}
Addr == 1 .. MaxAddr

\* a default-constructed Cell
NewCell == [itemCount |-> 0, x |-> 0, y |-> 0, items |-> <<>>]

\* a default-constructed std::vector<Cell>: no buffer yet
NewRow == [buf |-> 0, cap |-> 0, cells |-> <<>>]

\* n default-constructed elements
Fill(n, e) == [i \in 1 .. n |-> e]

Max(a, b) == IF a < b THEN b ELSE a

\* rows.resize(n) when rows.size() < n: the rows are moved into the new outer
\* buffer, each keeping its own buffer of cells
ResizeRows(rs, n) ==
    IF Len(rs) < n THEN rs \o Fill(n - Len(rs), NewRow) ELSE rs

\* row.resize(n) when row.size() < n.  Within the capacity the cells stay
\* where they are; beyond it they are moved to a new buffer at address buf,
\* whose capacity is n or the doubled old one, as the library chooses
ResizeRow(row, n, buf, cap) ==
    IF Len(row.cells) >= n THEN row
    ELSE IF n <= row.cap
    THEN [row EXCEPT !.cells = row.cells \o Fill(n - Len(row.cells), NewCell)]
    ELSE [buf |-> buf, cap |-> cap,
          cells |-> row.cells \o Fill(n - Len(row.cells), NewCell)]

\* the addresses of the buffers in use
LiveBufs(rs) == {rs[i].buf : i \in 1 .. Len(rs)} \ {0}

\* World::addItemToCell, element [iy][ix] being rs[iy + 1].cells[ix + 1];
\* the Cell* key is the pair <<buffer address, index in the buffer>>
addItemToCell(rs, keys, item, cx, cy, buf, cap) ==
    LET ix == cx
        iy == cy
        rs1 == ResizeRows(rs, iy + 1)
        row == ResizeRow(rs1[iy + 1], ix + 1, buf, cap)
        rs2 == [rs1 EXCEPT ![iy + 1] = row]
    IN  [rows |-> rs2, nonEmptyCells |-> keys \cup {<<row.buf, ix>>}]

\* World::sortByTiAndDistance: a goes before b
sortByTiAndDistance(a, b) ==
    IF a.ti = b.ti
    THEN LET ir == a.itemRect
             ar == a.otherRect
             br == b.otherRect
             ad == getSquareDistance(ir.x, ir.y, ir.w, ir.h, ar.x, ar.y, ar.w, ar.h)
             bd == getSquareDistance(ir.x, ir.y, ir.w, ir.h, br.x, br.y, br.w, br.h)
         IN  QLt(ad, bd)
    ELSE QLt(a.ti, b.ti)

\* World::project
project(item, x, y, w, h, goalX, goalY, filter) ==
    [cols |-> <<>>, len |-> 0]

Filter == {"all", "none"}

\* filter(item, other)
Admits(filter, item, other) == filter = "all"

\* the rectangles the owner of the items keeps for them
ItemRect ==
    [i \in Item |->
        CASE i = "a" -> Rc(0, 0, 1, 1)
          [] i = "b" -> Rc(2, 0, 1, 1)
          [] i = "c" -> Rc(2, 1, 1, 1)]

InitWorld ==
    /\ pc = "ready"
    /\ call = [op |-> "World"]
    /\ ret = NoRet
    /\ WorldInit

AddItemToCellCall ==
    \E item \in Item, cx \in 0 .. MaxCell, cy \in 0 .. MaxCell :
      \E buf \in Addr \ LiveBufs(rows) :
        \E cap \in {cx + 1, Max(cx + 1, 2 * ResizeRows(rows, cy + 1)[cy + 1].cap)} :
            LET w == addItemToCell(rows, nonEmptyCells, item, cx, cy, buf, cap) IN
            /\ Len(history) < MaxAdds
            /\ rows' = w.rows
            /\ nonEmptyCells' = w.nonEmptyCells
            /\ history' = Append(history,
                   [op |-> "addItemToCell", item |-> item, cx |-> cx, cy |-> cy])
            /\ call' = [op |-> "addItemToCell", item |-> item, cx |-> cx, cy |-> cy]
            /\ ret' = NoRet
            /\ pc' = "done"
            /\ UNCHANGED responses

ProjectCall ==
    \E item \in Item, goal \in {<<0, 0>>, <<3, 0>>, <<3, 1>>}, filter \in Filter :
        LET r == ItemRect[item] IN
        /\ call' = [op |-> "project", item |-> item,
                    x |-> r.x, y |-> r.y, w |-> r.w, h |-> r.h,
                    goalX |-> goal[1], goalY |-> goal[2], filter |-> filter]
        /\ ret' = project(item, Q(r.x), Q(r.y), r.w, r.h,
                          Q(goal[1]), Q(goal[2]), filter)
        /\ pc' = "done"
        /\ WorldUnchanged

Next == AddItemToCellCall \/ ProjectCall

Spec == InitWorld /\ [][Next]_vars

-----------------------------------------------------------------------------
(* Responses.  A response returns the resolved position, the collisions of *)
(* its project call and their count; the model adds the Collision as the   *)
(* response leaves it (col is passed by reference) and the arguments of    *)
(* the project calls it made.                                              *)

ProjectArgs(item, x, y, w, h, goalX, goalY, filter) ==
    [item |-> item, x |-> x, y |-> y, w |-> w, h |-> h,
     goalX |-> goalX, goalY |-> goalY, filter |-> filter]

touch(col, x, y, w, h, goalX, goalY, filter) ==
    [x |-> col.touch.x, y |-> col.touch.y, cols |-> <<>>, len |-> 0,
     col |-> col, projected |-> <<>>]

\* cross projecting from the touch point, as slide and bounce do
crossFromTouch(col, x, y, w, h, goalX, goalY, filter) ==
    LET p == project(col.item, col.touch.x, col.touch.y, w, h, goalX, goalY, filter)
    IN  [x |-> goalX, y |-> goalY, cols |-> p.cols, len |-> p.len,
         col |-> col,
         projected |-> <<ProjectArgs(col.item, col.touch.x, col.touch.y,
                                     w, h, goalX, goalY, filter)>>]

cross(col, x, y, w, h, goalX, goalY, filter) ==
    LET p == project(col.item, x, y, w, h, goalX, goalY, filter)
    IN  [x |-> goalX, y |-> goalY, cols |-> p.cols, len |-> p.len,
         col |-> col,
         projected |-> <<ProjectArgs(col.item, x, y, w, h, goalX, goalY, filter)>>]

\* slide with the test of the normal turned round
slideSwapped(col, x, y, w, h, goalX, goalY, filter) ==
    LET moving == col.move.x # 0 \/ col.move.y # 0
        sx == IF moving /\ col.normal.x # 0 THEN goalX ELSE col.touch.x
        sy == IF moving /\ col.normal.x = 0 THEN goalY ELSE col.touch.y
        p == project(col.item, col.touch.x, col.touch.y, w, h, sx, sy, filter)
    IN  [x |-> sx, y |-> sy, cols |-> p.cols, len |-> p.len,
         col |-> [col EXCEPT !.slide = Pt(sx, sy)],
         projected |-> <<ProjectArgs(col.item, col.touch.x, col.touch.y,
                                     w, h, sx, sy, filter)>>]

slide(col, x, y, w, h, goalX, goalY, filter) ==
    LET moving == col.move.x # 0 \/ col.move.y # 0
        sx == IF moving /\ col.normal.x = 0 THEN goalX ELSE col.touch.x
        sy == IF moving /\ col.normal.x # 0 THEN goalY ELSE col.touch.y
        p == project(col.item, col.touch.x, col.touch.y, w, h, sx, sy, filter)
    IN  [x |-> sx, y |-> sy, cols |-> p.cols, len |-> p.len,
         col |-> [col EXCEPT !.slide = Pt(sx, sy)],
         projected |-> <<ProjectArgs(col.item, col.touch.x, col.touch.y,
                                     w, h, sx, sy, filter)>>]

\* bounce negating both components of the remaining displacement
bounceBoth(col, x, y, w, h, goalX, goalY, filter) ==
    LET moving == col.move.x # 0 \/ col.move.y # 0
        tx == col.touch.x
        ty == col.touch.y
        bnx == QNeg(QSub(goalX, tx))
        bny == QNeg(QSub(goalY, ty))
        bx == IF moving THEN QAdd(tx, bnx) ELSE tx
        by == IF moving THEN QAdd(ty, bny) ELSE ty
        p == project(col.item, tx, ty, w, h, bx, by, filter)
    IN  [x |-> bx, y |-> by, cols |-> p.cols, len |-> p.len,
         col |-> [col EXCEPT !.bounce = Pt(bx, by)],
         projected |-> <<ProjectArgs(col.item, tx, ty, w, h, bx, by, filter)>>]

bounce(col, x, y, w, h, goalX, goalY, filter) ==
    LET moving == col.move.x # 0 \/ col.move.y # 0
        tx == col.touch.x
        ty == col.touch.y
        bnx == IF col.normal.x = 0 THEN QSub(goalX, tx) ELSE QNeg(QSub(goalX, tx))
        bny == IF col.normal.x = 0 THEN QNeg(QSub(goalY, ty)) ELSE QSub(goalY, ty)
        bx == IF moving THEN QAdd(tx, bnx) ELSE tx
        by == IF moving THEN QAdd(ty, bny) ELSE ty
        p == project(col.item, tx, ty, w, h, bx, by, filter)
    IN  [x |-> bx, y |-> by, cols |-> p.cols, len |-> p.len,
         col |-> [col EXCEPT !.bounce = Pt(bx, by)],
         projected |-> <<ProjectArgs(col.item, tx, ty, w, h, bx, by, filter)>>]

Normal == {Pt(0, 0), Pt(1, 0), Pt(0 - 1, 0), Pt(0, 1), Pt(0, 0 - 1)}
Move == {Pt(0, 0), Pt(1, 0), Pt(0, 1), Pt(1, 1)}

\* the Collision records handed to a response
ResponseCol ==
    {[MkCollision(m.x, m.y, n.x, n.y, Q(t[1]), Q(t[2]),
                  o[1], o[2], 1, 1, 1, 0, 1, 1, FALSE, Q(0))
        EXCEPT !.item = "a", !.other = "b"] :
        m \in Move, n \in Normal, t \in Coord \X Coord, o \in MoverOrigin}

ResponseArgs ==
    {[op |-> "response", col |-> c,
      x |-> Q(c.itemRect.x), y |-> Q(c.itemRect.y), w |-> 1, h |-> 1,
      goalX |-> Q(g[1]), goalY |-> Q(g[2]), filter |-> "all"] :
        c \in ResponseCol, g \in Coord \X Coord}

InitResponses ==
    /\ pc = "ready"
    /\ call \in ResponseArgs
    /\ ret = NoRet
    /\ WorldInit

Respond(name, r) ==
    /\ pc = "ready"
    /\ call.op = "response"
    /\ call' = [call EXCEPT !.op = name]
    /\ ret' = r
    /\ pc' = "done"
    /\ WorldUnchanged

TouchCall ==
    Respond("touch", touch(call.col, call.x, call.y, call.w, call.h,
                           call.goalX, call.goalY, call.filter))

CrossCall ==
    Respond("cross", cross(call.col, call.x, call.y, call.w, call.h,
                           call.goalX, call.goalY, call.filter))

SlideCall ==
    Respond("slide", slide(call.col, call.x, call.y, call.w, call.h,
                           call.goalX, call.goalY, call.filter))

BounceCall ==
    Respond("bounce", bounce(call.col, call.x, call.y, call.w, call.h,
                             call.goalX, call.goalY, call.filter))

NextResponses == TouchCall \/ CrossCall \/ SlideCall \/ BounceCall

SpecResponses == InitResponses /\ [][NextResponses]_vars

-----------------------------------------------------------------------------
(* The geometry kernel as called by a client: one call per behaviour, its  *)
(* arguments drawn at the start.                                           *)

DetectArgs ==
    {[op |-> "detectCollision",
      x1 |-> o[1], y1 |-> o[2], w1 |-> s1[1], h1 |-> s1[2],
      x2 |-> p2[1], y2 |-> p2[2], w2 |-> s2[1], h2 |-> s2[2],
      goalX |-> g[1], goalY |-> g[2]] :
        o \in MoverOrigin, s1 \in Size \X Size,
        p2 \in Coord \X Coord, s2 \in Size \X Size, g \in Coord \X Coord}

InitDetect ==
    /\ pc = "ready"
    /\ call \in DetectArgs
    /\ ret = NoRet
    /\ WorldInit

DetectCollisionCall ==
    /\ pc = "ready"
    /\ call.op = "detectCollision"
    /\ ret' = detectCollision(call.x1, call.y1, call.w1, call.h1,
                              call.x2, call.y2, call.w2, call.h2,
                              call.goalX, call.goalY)
    /\ pc' = "done"
    /\ UNCHANGED call
    /\ WorldUnchanged

NextDetect == DetectCollisionCall

SpecDetect == InitDetect /\ [][NextDetect]_vars

\* the seed ranges the callers pass: the default, the two of detectCollision
SeedRange == {<<Q(0), Q(1)>>, <<NumLowest, NumMax>>, <<NumLowest, Q(1)>>}

SegmentArgs ==
    {[op |-> "getSegmentIntersectionIndices",
      x |-> 0, y |-> 0, w |-> s[1], h |-> s[2],
      x1 |-> a[1], y1 |-> a[2], x2 |-> b[1], y2 |-> b[2],
      ti1 |-> t[1], ti2 |-> t[2]] :
        s \in Size \X Size, a \in SegCoord \X SegCoord,
        b \in SegCoord \X SegCoord, t \in SeedRange}

InitSegment ==
    /\ pc = "ready"
    /\ call \in SegmentArgs
    /\ ret = NoRet
    /\ WorldInit

SegmentCall ==
    /\ pc = "ready"
    /\ call.op = "getSegmentIntersectionIndices"
    /\ ret' = getSegmentIntersectionIndices(
                  call.x, call.y, call.w, call.h,
                  call.x1, call.y1, call.x2, call.y2, call.ti1, call.ti2)
    /\ pc' = "done"
    /\ UNCHANGED call
    /\ WorldUnchanged

NextSegment == SegmentCall

SpecSegment == InitSegment /\ [][NextSegment]_vars

-----------------------------------------------------------------------------
(* Grid *)

MaxCellSize == 4    \* cell sizes 1 .. MaxCellSize
MaxTrav == 6        \* coordinates of the points handed to toCell and traverse
MaxSteps == 16      \* iterations of the loop of traverse that are followed

CellSize == 1 .. MaxCellSize

QAbs(a) == <<Abs(a[1]), a[2]>>

\* a / v for a lattice value v # 0
QDivInt(a, v) == Frac(a[1], a[2] * v)

\* toCell with the quotient floored
toCellFloored(cellSize, x, y) ==
    Pt(Q((x \div cellSize) + 1), Q((y \div cellSize) + 1))

\* Grid::toCell: the quotient is a Number and stays one
toCell(cellSize, x, y) ==
    Pt(QAdd(Frac(x, cellSize), Q(1)), QAdd(Frac(y, cellSize), Q(1)))

\* Grid::traverseInitStep: <<step, d, t>>
traverseInitStep(cellSize, ct, t1, t2) ==
    LET v == t2 - t1 IN
    IF v > 0
    THEN [step |-> 1, d |-> Frac(cellSize, v),
          t |-> QDivInt(QSub(QMul(QAdd(ct, Q(v)), Q(cellSize)), Q(t1)), v)]
    ELSE IF v < 0
    THEN [step |-> 0 - 1, d |-> Frac(0 - cellSize, v),
          t |-> QDivInt(QSub(QMul(QAdd(ct, Q(v - 1)), Q(cellSize)), Q(t1)), v)]
    ELSE [step |-> 0, d |-> NumMax, t |-> NumMax]

\* Grid::traverse up to its loop: the locals, and the first call of f
traverseEnter(cellSize, x1, y1, x2, y2) ==
    LET c1 == toCell(cellSize, x1, y1)
        c2 == toCell(cellSize, x2, y2)
        ix == traverseInitStep(cellSize, c1.x, x1, x2)
        iy == traverseInitStep(cellSize, c1.y, y1, y2)
    IN  [cx |-> c1.x, cy |-> c1.y, cx2 |-> c2.x, cy2 |-> c2.y,
         stepX |-> ix.step, dx |-> ix.d, tx |-> ix.t,
         stepY |-> iy.step, dy |-> iy.d, ty |-> iy.t,
         visits |-> <<Pt(c1.x, c1.y)>>, steps |-> 0]

\* the condition of the while loop
FarFromEnd(t) ==
    QLt(Q(1), QAdd(QAbs(QSub(t.cx, t.cx2)), QAbs(QSub(t.cy, t.cy2))))

\* one iteration of the while loop
traverseStep(t) ==
    IF QLt(t.tx, t.ty)
    THEN LET cx == QAdd(t.cx, Q(t.stepX)) IN
         [t EXCEPT !.tx = QAdd(t.tx, t.dx), !.cx = cx,
                   !.visits = Append(t.visits, Pt(cx, t.cy)),
                   !.steps = t.steps + 1]
    ELSE LET cy == QAdd(t.cy, Q(t.stepY))
             corner == IF t.tx = t.ty
                       THEN <<Pt(QAdd(t.cx, Q(t.stepX)), t.cy)>>
                       ELSE <<>>
         IN  [t EXCEPT !.ty = QAdd(t.ty, t.dy), !.cy = cy,
                       !.visits = (t.visits \o corner) \o <<Pt(t.cx, cy)>>,
                       !.steps = t.steps + 1]

\* Grid::traverse after its loop: the last cell, if not arrived there
traverseLeave(t) ==
    IF t.cx # t.cx2 \/ t.cy # t.cy2
    THEN [t EXCEPT !.visits = Append(t.visits, Pt(t.cx2, t.cy2))]
    ELSE t

TravCoord == 0 .. MaxTrav

InitToCell ==
    /\ pc = "ready"
    /\ call \in {[op |-> "toCell", cellSize |-> cs, x |-> p[1], y |-> p[2]] :
                    cs \in CellSize,
                    p \in ((0 - MaxTrav) .. MaxTrav) \X ((0 - MaxTrav) .. MaxTrav)}
    /\ ret = NoRet
    /\ WorldInit

ToCellCall ==
    /\ pc = "ready"
    /\ call.op = "toCell"
    /\ ret' = toCell(call.cellSize, call.x, call.y)
    /\ pc' = "done"
    /\ UNCHANGED call
    /\ WorldUnchanged

NextToCell == ToCellCall

SpecToCell == InitToCell /\ [][NextToCell]_vars

InitTraverse ==
    /\ pc = "ready"
    /\ call \in {[op |-> "traverse", cellSize |-> cs,
                  x1 |-> a[1], y1 |-> a[2], x2 |-> b[1], y2 |-> b[2]] :
                    cs \in CellSize, a \in TravCoord \X TravCoord,
                    b \in TravCoord \X TravCoord}
    /\ ret = NoRet
    /\ WorldInit

\* the call, up to the while loop
TraverseEnter ==
    /\ pc = "ready"
    /\ call.op = "traverse"
    /\ ret' = traverseEnter(call.cellSize, call.x1, call.y1, call.x2, call.y2)
    /\ pc' = "loop"
    /\ UNCHANGED call
    /\ WorldUnchanged

\* one iteration of the while loop
TraverseStep ==
    /\ pc = "loop"
    /\ FarFromEnd(ret)
    /\ ret.steps < MaxSteps
    /\ ret' = traverseStep(ret)
    /\ UNCHANGED <<pc, call>>
    /\ WorldUnchanged

\* the loop ends, and the call returns
TraverseLeave ==
    /\ pc = "loop"
    /\ ~FarFromEnd(ret)
    /\ ret' = traverseLeave(ret)
    /\ pc' = "done"
    /\ UNCHANGED call
    /\ WorldUnchanged

NextTraverse == TraverseEnter \/ TraverseStep \/ TraverseLeave

SpecTraverse == InitTraverse /\ [][NextTraverse]_vars

-----------------------------------------------------------------------------
(* getNearestCorner as called by a client *)

InitCorner ==
    /\ pc = "ready"
    /\ call \in {[op |-> "getNearestCorner",
                  x |-> o[1], y |-> o[2], w |-> sz[1], h |-> sz[2],
                  px |-> p[1], py |-> p[2]] :
                    o \in Coord \X Coord, sz \in Size \X Size,
                    p \in SegCoord \X SegCoord}
    /\ ret = NoRet
    /\ WorldInit

NearestCornerCall ==
    /\ pc = "ready"
    /\ call.op = "getNearestCorner"
    /\ ret' = getNearestCorner(call.x, call.y, call.w, call.h, call.px, call.py)
    /\ pc' = "done"
    /\ UNCHANGED call
    /\ WorldUnchanged

NextCorner == NearestCornerCall

SpecCorner == InitCorner /\ [][NextCorner]_vars

-----------------------------------------------------------------------------
(* Properties of detectCollision *)

Returned(op) == pc = "done" /\ call.op = op

ZeroMotion == call.goalX = call.x1 /\ call.goalY = call.y1

\* the two rectangles share no point, not even of their borders
Disjoint ==
    \/ call.x1 + call.w1 < call.x2
    \/ call.x2 + call.w2 < call.x1
    \/ call.y1 + call.h1 < call.y2
    \/ call.y2 + call.h2 < call.y1

\* how far the mover has to go to leave the other: to the left, right, up, down
EscapeLeft == call.x1 + call.w1 - call.x2
EscapeRight == call.x2 + call.w2 - call.x1
EscapeUp == call.y1 + call.h1 - call.y2
EscapeDown == call.y2 + call.h2 - call.y1
EscapeX == Min(EscapeLeft, EscapeRight)
EscapeY == Min(EscapeUp, EscapeDown)

\* the rectangles overlap by more than the epsilon on both axes
OverlapBeyondEpsilon ==
    /\ GtDelta(EscapeLeft)
    /\ GtDelta(EscapeRight)
    /\ GtDelta(EscapeUp)
    /\ GtDelta(EscapeDown)

\* the record of "no collision"
NoHitRecord ==
    /\ ~ret.threw
    /\ ret.overlaps = FALSE
    /\ ret.ti = Q(0)
    /\ ret.normal = Pt(0, 0)

\* C2: detectCollision always returns a Collision record, ComputationError
\* never leaves it; in particular for disjoint rectangles and zero motion the
\* record has overlaps = false, ti = 0 and normal (0, 0).
C2_NeverThrows ==
    Returned("detectCollision") =>
        /\ ~ret.threw
        /\ (Disjoint /\ ZeroMotion) => NoHitRecord

\* C3: for rectangles overlapping by more than the epsilon on both axes and
\* zero motion, overlaps = true, the touch point differs from the mover's
\* origin on exactly one axis, the one with the shorter escape distance, the
\* mover placed there no longer overlaps the other, and the normal is the
\* sign of the displacement on that axis and 0 on the other.
C3_PushOutShorterAxis ==
    (Returned("detectCollision") /\ ZeroMotion /\ OverlapBeyondEpsilon) =>
        /\ ~ret.threw
        /\ ret.overlaps = TRUE
        /\ ret.touch.x[2] = 1
        /\ ret.touch.y[2] = 1
        /\ LET mx == ret.touch.x[1] - call.x1
               my == ret.touch.y[1] - call.y1
           IN  /\ (mx # 0) # (my # 0)
               /\ mx # 0 => (EscapeX <= EscapeY /\ Abs(mx) = EscapeX)
               /\ my # 0 => (EscapeY <= EscapeX /\ Abs(my) = EscapeY)
               /\ ~isIntersecting(ret.touch.x[1], ret.touch.y[1], call.w1, call.h1,
                                  call.x2, call.y2, call.w2, call.h2)
               /\ ret.normal = Pt(sign(mx), sign(my))

\* C3 witness: an overlap with different escape distances on the two axes
C3_Witness ==
    /\ Returned("detectCollision")
    /\ ZeroMotion
    /\ OverlapBeyondEpsilon
    /\ EscapeX < EscapeY
    /\ ~ret.threw
    /\ ret.overlaps = TRUE
    /\ ret.normal.x # 0

-----------------------------------------------------------------------------
(* Properties of getSegmentIntersectionIndices *)

FullLine == call.ti1 = NumLowest /\ call.ti2 = NumMax

SegDx == call.x2 - call.x1
SegDy == call.y2 - call.y1

Corners ==
    {<<call.x, call.y>>, <<call.x + call.w, call.y>>,
     <<call.x, call.y + call.h>>, <<call.x + call.w, call.y + call.h>>}

\* on which side of the line through the segment the point c lies
Cross(c) == SegDx * (c[2] - call.y1) - SegDy * (c[1] - call.x1)

\* the segment and the rectangle (border included) share no point: an axis
\* separates them, or the segment's own line does
SegmentOutside ==
    \/ call.x1 < call.x /\ call.x2 < call.x
    \/ call.x1 > call.x + call.w /\ call.x2 > call.x + call.w
    \/ call.y1 < call.y /\ call.y2 < call.y
    \/ call.y1 > call.y + call.h /\ call.y2 > call.y + call.h
    \/ \A c \in Corners : Cross(c) > 0
    \/ \A c \in Corners : Cross(c) < 0

\* the line through the segment misses the rectangle: for a segment with a
\* slope, all corners lie strictly on one side of it; a segment parallel to an
\* axis, or of length zero, misses unless it runs through the open interior
LineMisses ==
    IF SegDx = 0 /\ SegDy = 0
    THEN ~containsPoint(call.x, call.y, call.w, call.h, call.x1, call.y1)
    ELSE IF SegDx = 0
    THEN call.x1 <= call.x \/ call.x1 >= call.x + call.w
    ELSE IF SegDy = 0
    THEN call.y1 <= call.y \/ call.y1 >= call.y + call.h
    ELSE \/ \A c \in Corners : Cross(c) > 0
         \/ \A c \in Corners : Cross(c) < 0

\* C9 as stated: with the seed range (-infinity, +infinity) every segment
\* fully outside the rectangle raises ComputationError, also when the line
\* through it passes through the rectangle.
C9_OutsideSegmentThrows ==
    (Returned("getSegmentIntersectionIndices") /\ FullLine /\ SegmentOutside)
        => ret.threw

\* C9 amended: with the seed range (-infinity, +infinity) ComputationError is
\* raised exactly when the line through the segment misses the rectangle; a
\* segment fully outside whose line passes through the rectangle raises
\* nothing and gets the line's two parameters ti1 <= ti2, both below 0 or
\* both above 1.
C9_ThrowsIffLineMisses ==
    (Returned("getSegmentIntersectionIndices") /\ FullLine) =>
        /\ ret.threw <=> LineMisses
        /\ (SegmentOutside /\ ~LineMisses) =>
              /\ QLe(ret.ti1, ret.ti2)
              /\ \/ QLt(ret.ti2, Q(0))
                 \/ QLt(Q(1), ret.ti1)

\* C9 witness: a segment outside the rectangle on a line that misses it
C9_Witness ==
    /\ Returned("getSegmentIntersectionIndices")
    /\ FullLine
    /\ SegmentOutside
    /\ LineMisses
    /\ SegDx # 0
    /\ SegDy # 0
    /\ ret.threw

\* where the line is when it crosses the vertical line at X (SegDx # 0), and
\* the horizontal line at Y (SegDy # 0)
YAt(X) == QAdd(Q(call.y1), Frac(SegDy * (X - call.x1), SegDx))
XAt(Y) == QAdd(Q(call.x1), Frac(SegDx * (Y - call.y1), SegDy))

StrictlyBetween(v, lo, hi) == QLt(Q(lo), v) /\ QLt(v, Q(hi))

\* the line crosses the left and the right side, each between its corners
CrossesLeftRight ==
    /\ SegDx # 0
    /\ call.w > 0
    /\ StrictlyBetween(YAt(call.x), call.y, call.y + call.h)
    /\ StrictlyBetween(YAt(call.x + call.w), call.y, call.y + call.h)

\* the line crosses the top and the bottom side, each between its corners
CrossesTopBottom ==
    /\ SegDy # 0
    /\ call.h > 0
    /\ StrictlyBetween(XAt(call.y), call.x, call.x + call.w)
    /\ StrictlyBetween(XAt(call.y + call.h), call.x, call.x + call.w)

\* C10: with the seed range (-infinity, +infinity), a segment entering through
\* one side and leaving through the opposite side gets ti1 < ti2, the entry
\* and exit parameters, and the outward normals of the entry and exit sides,
\* each with exactly one non-zero component, of magnitude 1.
C10_OppositeSides ==
    (Returned("getSegmentIntersectionIndices") /\ FullLine) =>
        /\ CrossesLeftRight =>
              /\ ~ret.threw
              /\ QLt(ret.ti1, ret.ti2)
              /\ ret.ny1 = 0 /\ ret.ny2 = 0
              /\ IF SegDx > 0
                 THEN /\ ret.nx1 = 0 - 1 /\ ret.nx2 = 1
                      /\ ret.ti1 = Frac(call.x - call.x1, SegDx)
                      /\ ret.ti2 = Frac(call.x + call.w - call.x1, SegDx)
                 ELSE /\ ret.nx1 = 1 /\ ret.nx2 = 0 - 1
                      /\ ret.ti1 = Frac(call.x + call.w - call.x1, SegDx)
                      /\ ret.ti2 = Frac(call.x - call.x1, SegDx)
        /\ CrossesTopBottom =>
              /\ ~ret.threw
              /\ QLt(ret.ti1, ret.ti2)
              /\ ret.nx1 = 0 /\ ret.nx2 = 0
              /\ IF SegDy > 0
                 THEN /\ ret.ny1 = 0 - 1 /\ ret.ny2 = 1
                      /\ ret.ti1 = Frac(call.y - call.y1, SegDy)
                      /\ ret.ti2 = Frac(call.y + call.h - call.y1, SegDy)
                 ELSE /\ ret.ny1 = 1 /\ ret.ny2 = 0 - 1
                      /\ ret.ti1 = Frac(call.y + call.h - call.y1, SegDy)
                      /\ ret.ti2 = Frac(call.y - call.y1, SegDy)

\* C10 witness: a sloped segment that starts left of the rectangle, ends right
\* of it and crosses both sides between their corners
C10_Witness ==
    /\ Returned("getSegmentIntersectionIndices")
    /\ FullLine
    /\ CrossesLeftRight
    /\ SegDx > 0
    /\ SegDy # 0
    /\ call.x1 < call.x
    /\ call.x2 > call.x + call.w
    /\ ~ret.threw
    /\ ret.nx1 = 0 - 1
    /\ ret.nx2 = 1

-----------------------------------------------------------------------------
(* Properties of the World *)

\* the items addItemToCell was called for
Registered ==
    {history[i].item : i \in {j \in 1 .. Len(history) : history[j].op = "addItemToCell"}}

\* the sweep test of the mover of the last project call against item o
Sweep(o) ==
    detectCollision(call.x, call.y, call.w, call.h,
                    ItemRect[o].x, ItemRect[o].y, ItemRect[o].w, ItemRect[o].h,
                    call.goalX, call.goalY)

IsHit(c) == ~c.threw /\ (c.overlaps \/ c.normal # Pt(0, 0))

\* the registered items the filter admits and the sweep hits
Hits ==
    {o \in Registered \ {call.item} :
        Admits(call.filter, call.item, o) /\ IsHit(Sweep(o))}

\* C1: project, for a mover whose sweep hits registered items the filter
\* admits, returns one collision per such item, ordered by ti and then by
\* squared centre distance, and the length of the list as the count.
C1_ProjectReportsHits ==
    (Returned("project") /\ Hits # {}) =>
        /\ ret.len = Len(ret.cols)
        /\ Len(ret.cols) = Cardinality(Hits)
        /\ {ret.cols[i].other : i \in 1 .. Len(ret.cols)} = Hits
        /\ \A i, j \in 1 .. Len(ret.cols) :
              i < j => ~sortByTiAndDistance(ret.cols[j], ret.cols[i])

\* the handler the calls so far leave registered under name: the one of the
\* last addResponse for it, else the built-in one, else none
LastRegistered(name) ==
    LET regs == {i \in 1 .. Len(history) :
                    history[i].op = "addResponse" /\ history[i].name = name}
    IN  IF regs # {}
        THEN history[CHOOSE i \in regs : \A j \in regs : j <= i].handler
        ELSE CASE name = "touch" -> "Responses::touch"
               [] name = "cross" -> "Responses::cross"
               [] name = "slide" -> "Responses::slide"
               [] name = "bounce" -> "Responses::bounce"
               [] OTHER -> "none"

\* C7: after the construction and any addResponse calls, a lookup returns the
\* handler registered last under the name (the built-in one if never
\* replaced) and raises NotFoundError exactly when the name was never
\* registered; registering one name leaves every other name as it was.
C7_LookupLastRegistered ==
    /\ \A name \in ResponseName :
          LET r == getResponseByName(responses, name) IN
          /\ r.threw <=> LastRegistered(name) = "none"
          /\ ~r.threw => r.handler = LastRegistered(name)
    /\ Returned("getResponseByName") =>
          /\ ret.threw <=> LastRegistered(call.name) = "none"
          /\ ~ret.threw => ret.handler = LastRegistered(call.name)

\* C7 witness: a built-in name was replaced twice, and the lookup returns the
\* second handler
C7_Witness ==
    /\ Returned("getResponseByName")
    /\ call.name = "slide"
    /\ Len(history) = 2
    /\ history[1].name = "slide"
    /\ history[2].name = "slide"
    /\ history[1].handler # history[2].handler
    /\ ~ret.threw
    /\ ret.handler = history[2].handler

\* the key of the cell [iy][ix] in nonEmptyCells
KeyOf(ix, iy) == <<rows[iy + 1].buf, ix>>

HasCell(ix, iy) == iy + 1 <= Len(rows) /\ ix + 1 <= Len(rows[iy + 1].cells)

ItemsOf(ix, iy) ==
    {rows[iy + 1].cells[ix + 1].items[k] :
        k \in 1 .. Len(rows[iy + 1].cells[ix + 1].items)}

\* C8: a cell is in the nonEmptyCells index iff its item set is non-empty;
\* after addItemToCell(item, cx, cy) the cell (cx, cy) is in the index and
\* holds item.
C8_IndexIffNonEmpty ==
    /\ \A iy \in 0 .. MaxCell, ix \in 0 .. MaxCell :
          HasCell(ix, iy) =>
              (KeyOf(ix, iy) \in nonEmptyCells <=> ItemsOf(ix, iy) # {})
    /\ Returned("addItemToCell") =>
          /\ HasCell(call.cx, call.cy)
          /\ KeyOf(call.cx, call.cy) \in nonEmptyCells
          /\ call.item \in ItemsOf(call.cx, call.cy)

-----------------------------------------------------------------------------
(* Properties of the responses *)

Moving == call.col.move # Pt(0, 0)

\* no item is registered in the world, so none lies on any path
NothingRegistered == Registered = {}

\* C4: slide returns (goalX, touch.y) for normal.x == 0 and (touch.x, goalY)
\* otherwise, the touch point for zero motion; it stores that point in
\* col.slide, projects from the touch point towards it, and returns no
\* further collisions when nothing lies on the slid path.
C4_Slide ==
    Returned("slide") =>
        LET c == call.col
            expected == IF ~Moving THEN c.touch
                        ELSE IF c.normal.x = 0 THEN Pt(call.goalX, c.touch.y)
                        ELSE Pt(c.touch.x, call.goalY)
        IN  /\ Pt(ret.x, ret.y) = expected
            /\ ret.col.slide = expected
            /\ ret.projected =
                  <<ProjectArgs(c.item, c.touch.x, c.touch.y, call.w, call.h,
                                expected.x, expected.y, call.filter)>>
            /\ NothingRegistered => (ret.cols = <<>> /\ ret.len = 0)

\* C4 witness: a slide along a vertical wall, the goal away from the touch
\* point on both axes
C4_Witness ==
    /\ Returned("slide")
    /\ Moving
    /\ call.col.normal.x # 0
    /\ call.goalX # call.col.touch.x
    /\ call.goalY # call.col.touch.y
    /\ ret.x = call.col.touch.x
    /\ ret.y = call.goalY

\* C5: bounce with motion returns touch + (-(goalX - touch.x), goalY - touch.y)
\* for normal.x != 0, and negates only the y-component for normal.x == 0;
\* the point is stored in col.bounce.
C5_Bounce ==
    (Returned("bounce") /\ Moving) =>
        LET c == call.col
            mirrorX == QSub(QAdd(c.touch.x, c.touch.x), call.goalX)
            mirrorY == QSub(QAdd(c.touch.y, c.touch.y), call.goalY)
        IN  /\ c.normal.x # 0 => (ret.x = mirrorX /\ ret.y = call.goalY)
            /\ c.normal.x = 0 => (ret.x = call.goalX /\ ret.y = mirrorY)
            /\ ret.col.bounce = Pt(ret.x, ret.y)

\* C5 witness: a bounce off a vertical wall with remaining displacement on
\* both axes
C5_Witness ==
    /\ Returned("bounce")
    /\ Moving
    /\ call.col.normal.x # 0
    /\ call.goalX # call.col.touch.x
    /\ call.goalY # call.col.touch.y
    /\ ret.x # call.goalX
    /\ ret.y = call.goalY

\* C6 as stated: cross returns the goal and makes exactly one project call,
\* from the collision's touch point to the goal, for the same mover and
\* filter, whose collisions it returns.
C6_CrossFromTouch ==
    Returned("cross") =>
        LET c == call.col IN
        /\ Pt(ret.x, ret.y) = Pt(call.goalX, call.goalY)
        /\ ret.projected =
              <<ProjectArgs(c.item, c.touch.x, c.touch.y, call.w, call.h,
                            call.goalX, call.goalY, call.filter)>>

\* C6 amended: cross returns the goal and makes exactly one project call,
\* from the position (x, y) it was called with (not the touch point) to the
\* goal, for the same mover and filter, whose collisions it returns.
C6_CrossFromPosition ==
    Returned("cross") =>
        LET c == call.col
            p == project(c.item, call.x, call.y, call.w, call.h,
                         call.goalX, call.goalY, call.filter)
        IN  /\ Pt(ret.x, ret.y) = Pt(call.goalX, call.goalY)
            /\ ret.projected =
                  <<ProjectArgs(c.item, call.x, call.y, call.w, call.h,
                                call.goalX, call.goalY, call.filter)>>
            /\ ret.cols = p.cols
            /\ ret.len = p.len

\* C6 witness: a cross whose touch point is not the position it was called with
C6_Witness ==
    /\ Returned("cross")
    /\ call.col.touch # Pt(call.x, call.y)
    /\ Len(ret.projected) = 1
    /\ ret.projected[1].x = call.x
    /\ ret.projected[1].y = call.y

-----------------------------------------------------------------------------
(* Properties of the grid functions *)

\* C11: toCell returns the integer cell indices
\* (floor(x / cellSize) + 1, floor(y / cellSize) + 1).
C11_ToCellFloors ==
    Returned("toCell") => ret = toCellFloored(call.cellSize, call.x, call.y)

\* the cells of the row from the start point's cell to the end point's cell,
\* in the direction of travel
HorizontalRun ==
    LET c1 == toCellFloored(call.cellSize, call.x1, call.y1)
        c2 == toCellFloored(call.cellSize, call.x2, call.y2)
        dir == sign(c2.x[1] - c1.x[1])
    IN  [i \in 1 .. (Abs(c2.x[1] - c1.x[1]) + 1) |->
            Pt(Q(c1.x[1] + dir * (i - 1)), c1.y)]

\* C12: for a horizontal segment traverse calls the visitor exactly once for
\* each cell of the run from the start point's cell to the end point's cell,
\* in order, and for no other cell.
C12_HorizontalRun ==
    (Returned("traverse") /\ call.y1 = call.y2) => ret.visits = HorizontalRun

\* the walk has gone more than one cell past the end cell on an axis; it only
\* ever moves on in its direction, so the loop condition stays true for good
PastEnd(t) ==
    \/ QLt(Q(1), QMul(Q(t.stepX), QSub(t.cx, t.cx2)))
    \/ QLt(Q(1), QMul(Q(t.stepY), QSub(t.cy, t.cy2)))

-----------------------------------------------------------------------------
(* Properties of detectCollision, continued *)

Between(v, a, b) == (QLe(Q(a), v) /\ QLe(v, Q(b))) \/ (QLe(Q(b), v) /\ QLe(v, Q(a)))

\* the line of motion meets the other rectangle only beyond the goal
OnlyBeyondGoal ==
    LET d == getDiff(call.x1, call.y1, call.w1, call.h1,
                     call.x2, call.y2, call.w2, call.h2)
        seg == getSegmentIntersectionIndices(
                   d.x, d.y, d.w, d.h, 0, 0,
                   call.goalX - call.x1, call.goalY - call.y1, NumLowest, NumMax)
    IN  ~seg.threw /\ QLt(Q(1), seg.ti1)

\* C13: a contact reported for rectangles that do not overlap at the start
\* lies on the motion path: -epsilon < ti <= 1 and the touch point is between
\* the origin and the goal; a rectangle met only beyond the goal gives no
\* collision (ti = 0, normal (0, 0)).
C13_ContactOnPath ==
    (Returned("detectCollision") /\ ~ret.threw) =>
        /\ (ret.overlaps = FALSE /\ ret.normal # Pt(0, 0)) =>
              /\ QLe(ret.ti, Q(1))
              /\ PlusDeltaPositive(ret.ti)
              /\ Between(ret.touch.x, call.x1, call.goalX)
              /\ Between(ret.touch.y, call.y1, call.goalY)
        /\ OnlyBeyondGoal => NoHitRecord

-----------------------------------------------------------------------------
(* Properties of getNearestCorner *)

\* v is the one of a and b nearer to p, or as near
Nearer(v, a, b, p) ==
    /\ v \in {a, b}
    /\ Abs(v - p) <= Abs(a - p)
    /\ Abs(v - p) <= Abs(b - p)

NearerOnBothAxes ==
    /\ Nearer(ret.x, call.x, call.x + call.w, call.px)
    /\ Nearer(ret.y, call.y, call.y + call.h, call.py)

TieX == Abs(call.x - call.px) = Abs(call.x + call.w - call.px)
TieY == Abs(call.y - call.py) = Abs(call.y + call.h - call.py)

\* C15 as stated: on each axis the nearer edge; a point equally far from both
\* edges of an axis gets the first candidate, x or y.
C15_TieToFirst ==
    Returned("getNearestCorner") =>
        /\ NearerOnBothAxes
        /\ TieX => ret.x = call.x
        /\ TieY => ret.y = call.y

\* C15 amended: on each axis the nearer edge; a point equally far from both
\* edges of an axis gets the second candidate, x + w or y + h.
C15_TieToSecond ==
    Returned("getNearestCorner") =>
        /\ NearerOnBothAxes
        /\ TieX => ret.x = call.x + call.w
        /\ TieY => ret.y = call.y + call.h

\* C15 witness: a point midway between the left and the right edge, nearer to
\* the top edge
C15_Witness ==
    /\ Returned("getNearestCorner")
    /\ call.w > 0
    /\ call.h > 0
    /\ TieX
    /\ Abs(call.y - call.py) < Abs(call.y + call.h - call.py)
    /\ ret.x = call.x + call.w
    /\ ret.y = call.y

====
